---- MODULE Spec2Model ----
(***************************************************************************)
(* Model of hdx_extractor.py: one run of the export orchestrator, entered  *)
(* through main() or lambda_handler().  The run builds export descriptors  *)
(* (init_call / get_scheduled_exports), submits one request per descriptor *)
(* (process_export / retry_post_request / handle_rate_limit) and, when     *)
(* --track is given, polls every task (track_tasks_status).                *)
(*                                                                         *)
(* Every HTTP exchange is one step; the remote side is the environment and *)
(* answers each request with any response of a small set.  Dicts are       *)
(* sequences of <<key, value>> pairs (Python keeps insertion order), JSON  *)
(* text is a sequence of tokens.  Only HTTP responses are modelled for the *)
(* POST; socket-level faults are the HTTP library's business.  The session *)
(* is used after its with-block closed it, which requests permits: the     *)
(* mounted adapters and their Retry policy stay in force.                  *)
(***************************************************************************)
EXTENDS Integers, Sequences, FiniteSets, TLC

\* ---------------------------------------------------------------- bounds
MaxCountries == 2      \* longest explicit country list
MaxFeatures == 1       \* longest scheduled feature list
MaxCooldowns == 2      \* cooldown rounds explored in one run
MaxPolls == 3          \* status queries explored for one task

\* ------------------------------------------------------ program constants
RetryTotal_OffByOne == 2 + 1
RetryTotal == 2
StatusForcelist_With500 == {429, 500, 502}
StatusForcelist == {429, 502}
RateLimitSleep == 61
PollSleep == 30
max_retries_OffByOne == 3 + 1
max_retries == 3

None == "None"

\* ------------------------------------------------------------ input sets
CountryCodes == {"KEN", "UGA"}
Frequencies == {None, "daily"}
\* task identifiers in the order the remote side issues them: they are
\* opaque to the program, so the k-th identifier issued is the k-th of the pool
TaskIdPool == <<"t1", "t2", "t3", "t4", "t5">>
Payloads == {"r1", "r2"}
ErrorPayload == "e1"

\* base configuration templates: one with a field named "key", one without
Templates ==
  { << <<"dataset", "d0">>, <<"key", "k0">>, <<"geometry", "g0">> >>,
    << <<"dataset", "d0">> >> }

\* property mappings of scheduled features: empty, single key, several keys
PropMaps ==
  { << >>,
    << <<"iso3", "NPL">> >>,
    << <<"iso3", "NPL">>, <<"dataset", "roads">> >> }

SeqsUpTo(S, n) == UNION {[1..k -> S] : k \in 0..n}

\* ------------------------------------------------------------- dict, JSON
DictKeys(d) == {d[i][1] : i \in DOMAIN d}

DictGet(d, k) ==
  IF k \in DictKeys(d)
  THEN LET i == CHOOSE j \in DOMAIN d : d[j][1] = k IN d[i][2]
  ELSE None

DictSet(d, k, v) ==
  IF k \in DictKeys(d)
  THEN [i \in DOMAIN d |-> IF d[i][1] = k THEN <<k, v>> ELSE d[i]]
  ELSE Append(d, <<k, v>>)

\* json.dumps of a dict: "{" k ":" v "," k ":" v "}"
RECURSIVE DumpsPairs(_)
DumpsPairs(d) ==
  IF d = << >> THEN << >>
  ELSE <<d[1][1], ":", d[1][2]>>
       \o (IF Len(d) = 1 THEN << >> ELSE <<",">> \o DumpsPairs(Tail(d)))

Dumps(d) == <<"{">> \o DumpsPairs(d) \o <<"}">>

\* the receiving side's parse of a request body
Loads(body) ==
  [j \in 1..((Len(body) - 1) \div 4) |-> <<body[4 * j - 2], body[4 * j]>>]

\* -------------------------------------------------------- request builder
\* a builder that keeps the first key's override instead of the last one's
OverrideLoop_FirstWins(config_temp, properties, i) ==
  IF i > Len(properties) THEN config_temp
  ELSE DictSet(config_temp, "key", properties[i][2])

RECURSIVE OverrideLoop(_, _, _)
OverrideLoop(config_temp, properties, i) ==
  IF i > Len(properties) THEN config_temp
  ELSE OverrideLoop(DictSet(config_temp, "key",
                            DictGet(properties, properties[i][1])),
                    properties, i + 1)

RECURSIVE OverrideLoopByName(_, _, _)
OverrideLoopByName(config_temp, properties, i) ==
  IF i > Len(properties) THEN config_temp
  ELSE OverrideLoopByName(DictSet(config_temp, properties[i][1],
                                  DictGet(properties, properties[i][1])),
                          properties, i + 1)

generate_filtered_config_ByName(cfg, export) ==
  Dumps(OverrideLoopByName(cfg, export.properties, 1))

\* lines 39-41 with config_temp bound to self.config itself (no copy): the
\* overrides are written into the template
BuildObjects_Alias(cfg, export) ==
  LET written == OverrideLoop(cfg, export.properties, 1) IN
  [self_config |-> written, config_temp |-> written]

\* lines 39-41: the two objects after the loop.  copy.deepcopy gives
\* config_temp the template's value in an object of its own, so the loop's
\* writes reach config_temp only
BuildObjects(cfg, export) ==
  [self_config |-> cfg,
   config_temp |-> OverrideLoop(cfg, export.properties, 1)]

generate_filtered_config(cfg, export) ==
  Dumps(BuildObjects(cfg, export).config_temp)

\* ------------------------------------------------------------- discovery
\* Python truth value of a list argument and of a string-or-None argument
TruthyList(x) == x # << >>
TruthyStr(x) == x # None /\ x # ""

CountryDescriptors(cs) ==
  [i \in DOMAIN cs |-> [properties |-> << <<"iso3", cs[i]>> >>]]

\* init_call, lines 140-143: the descriptors of the explicit countries
ExplicitExports(cs) == IF TruthyList(cs) THEN CountryDescriptors(cs) ELSE << >>

ExtendScheduled_Prepend(details, fetched) == fetched \o details

\* init_call, line 151: all_export_details.extend(...)
ExtendScheduled(details, fetched) == details \o fetched

Features == [properties : PropMaps]

\* outcomes of one GET of the scheduled-discovery endpoint
ScheduledOutcomes ==
  {[ok |-> TRUE, features |-> fs] : fs \in SeqsUpTo(Features, MaxFeatures)}
    \cup {[ok |-> FALSE]}

\* ------------------------------------------------------------ submission
PostResponse(code, body) == [status_code |-> code, json |-> body]

\* the identifier the remote side issues after `issued` earlier ones
FreshTaskIds(issued) ==
  IF issued < Len(TaskIdPool) THEN {TaskIdPool[issued + 1]} ELSE {}

\* responses of the submission endpoint; a task id is never issued twice
PostResponses(issued) ==
  {PostResponse(200, [task_id |-> t]) : t \in FreshTaskIds(issued) \cup {None}}
    \cup {PostResponse(200, [detail |-> "queued"])}
    \cup {PostResponse(c, [detail |-> "error"]) : c \in {429, 500, 502}}

PostOutcome_NoRetryError(retries, r) ==
  IF r.status_code \in StatusForcelist /\ retries < RetryTotal THEN "retry"
  ELSE IF r.status_code >= 400 THEN "HTTPError"
  ELSE IF "task_id" \notin DOMAIN r.json THEN "KeyError:task_id"
  ELSE "return"

\* what session.post + raise_for_status + json()["task_id"] do with the
\* response to the POST that follows `retries` transport retries
PostOutcome(retries, r) ==
  IF r.status_code \in StatusForcelist
  THEN IF retries < RetryTotal THEN "retry" ELSE "RetryError"
  ELSE IF r.status_code >= 400 THEN "HTTPError"
  ELSE IF "task_id" \notin DOMAIN r.json THEN "KeyError:task_id"
  ELSE "return"

\* a loop that appends whatever process_export returned
CollectTaskId_Unchecked(ids, task_id) == Append(ids, task_id)

\* init_call, lines 158-159
CollectTaskId(ids, task_id) ==
  IF task_id # None THEN Append(ids, task_id) ELSE ids

\* --------------------------------------------------------------- polling
RemoteStatusBodies ==
  {[status |-> "SUCCESS", result |-> r] : r \in Payloads}
    \cup {[status |-> s, result |-> None] : s \in {"PENDING", "STARTED", "REVOKED"}}
    \cup {[status |-> "FAILURE", result |-> ErrorPayload]}

\* outcomes of one GET of the status endpoint: a JSON body or a
\* RequestException (transport fault or HTTP error status)
StatusOutcomes == {[ok |-> TRUE, json |-> b] : b \in RemoteStatusBodies}
                    \cup {[ok |-> FALSE]}

\* retry_get_request, lines 83-90
retry_get_request(o) == IF o.ok THEN o.json ELSE [status |-> "ERROR"]

\* line 101
NonTerminal_WithError == {"PENDING", "STARTED", "ERROR"}
NonTerminal == {"PENDING", "STARTED"}

\* line 104
LoopTerminal_NoSuccess == {"ERROR", "FAILURE"}
LoopTerminal == {"SUCCESS", "ERROR", "FAILURE"}

\* a loop that takes the task before the one it should (index off by one)
CurrentTask_OffByOne(ids, done) == ids[IF done = 0 THEN 1 ELSE done]

\* line 95: the task of the for loop's pass that follows `done` finished ones
CurrentTask(ids, done) == ids[done + 1]

EmptyDict == [t \in {} |-> None]
DictPut(d, k, v) == [t \in DOMAIN d \cup {k} |-> IF t = k THEN v ELSE d[t]]

\* ------------------------------------------------------------------ state
VARIABLES
  pc, error,
  entry, config_json, config_file, file_content, token,  \* environment of the run
  countries, fetch_scheduled_exports, track,        \* arguments of the run
  config,                                           \* HDXProcessor.config
  all_export_details, features, get_attempts,       \* discovery
  idx, request_config, post_seen, cooldowns, posted, task_ids,   \* submission
  tidx, queried, seen, calls, sleeps, results, result_json,  \* polling
  sleeping

inputs == <<entry, config_json, config_file, file_content, token, countries,
            fetch_scheduled_exports, track>>
discovery == <<all_export_details, features, get_attempts>>
submission == <<idx, request_config, post_seen, cooldowns, posted, task_ids>>
polling == <<tidx, queried, seen, calls, sleeps, results, result_json>>
vars == <<pc, error, inputs, config, discovery, submission, polling, sleeping>>

CountryLists == SeqsUpTo(CountryCodes, MaxCountries)

Init ==
  /\ pc = "start"
  /\ error = "none"
  /\ entry \in {"main", "lambda"}
  \* CONFIG_JSON as the entry point reads it: a path, or None when unset;
  \* main() defaults it to "config.json" (line 211)
  /\ config_json \in {None, "path"}
  /\ entry = "main" => config_json = "path"
  /\ config_file \in {"absent", "invalid", "valid"}
  /\ file_content \in Templates
  /\ config_file # "valid" => file_content = CHOOSE t \in Templates : TRUE
  /\ token \in BOOLEAN
  /\ countries \in CountryLists
  /\ fetch_scheduled_exports \in Frequencies
  /\ track \in BOOLEAN
  \* argparse: --countries (one or more) and --fetch-scheduled-exports are
  \* mutually exclusive and one is required; lambda_handler never tracks
  /\ entry = "main" => (countries # << >>) # (fetch_scheduled_exports # None)
  /\ entry = "lambda" => ~track
  /\ config = << >>
  /\ all_export_details = << >>
  /\ features = << >>
  /\ get_attempts = 0
  /\ idx = 0
  /\ request_config = << >>
  /\ post_seen = << >>
  /\ cooldowns = 0
  /\ posted = FALSE
  /\ task_ids = << >>
  /\ tidx = 0
  /\ queried = None
  /\ seen = << >>
  /\ calls = 0
  /\ sleeps = 0
  /\ results = EmptyDict
  /\ result_json = << >>
  /\ sleeping = 0

Raise(e) == pc' = "failed" /\ error' = e

\* a constructor that takes whatever the path yields, without lines 26-30
LoadConfig_Unchecked ==
  /\ config' = file_content /\ pc' = "init_call" /\ UNCHANGED error

\* HDXProcessor.__init__ on a path: the template it loads, or the error
LoadConfig ==
  IF config_file # "valid"
  THEN /\ Raise("ValueError") /\ UNCHANGED config
  ELSE /\ config' = file_content /\ pc' = "init_call" /\ UNCHANGED error

\* main(), lines 211-215
Main ==
  /\ pc = "start" /\ entry = "main"
  /\ IF ~token THEN Raise("ValueError") /\ UNCHANGED config ELSE LoadConfig
  /\ UNCHANGED <<inputs, discovery, submission, polling, sleeping>>

\* lambda_handler(), lines 169-177
LambdaHandler ==
  /\ pc = "start" /\ entry = "lambda"
  /\ IF config_json = None \/ ~token
     THEN Raise("ValueError") /\ UNCHANGED config
     ELSE LoadConfig
  /\ UNCHANGED <<inputs, discovery, submission, polling, sleeping>>

\* init_call, lines 140-151 up to the scheduled fetch
InitCall ==
  /\ pc = "init_call"
  /\ all_export_details' = ExplicitExports(countries)
  /\ pc' = IF TruthyStr(fetch_scheduled_exports) THEN "get_scheduled" ELSE "submit"
  /\ idx' = 1
  /\ UNCHANGED <<error, inputs, config, features, get_attempts, request_config,
                 post_seen, cooldowns, posted, task_ids, polling, sleeping>>

\* get_scheduled_exports: one pass of the retry loop
GetScheduledExports ==
  /\ pc = "get_scheduled"
  /\ \E o \in ScheduledOutcomes :
       /\ get_attempts' = get_attempts + 1
       /\ IF o.ok
          THEN /\ features' = o.features
               /\ all_export_details' = ExtendScheduled(all_export_details, o.features)
               /\ pc' = "submit"
               /\ UNCHANGED error
          ELSE /\ UNCHANGED <<features, all_export_details>>
               /\ IF get_attempts + 1 >= max_retries
                  THEN Raise("Exception")
                  ELSE UNCHANGED <<pc, error>>
  /\ UNCHANGED <<inputs, config, submission, polling, sleeping>>

\* init_call line 156-157 and process_export line 45: next descriptor
ProcessExport ==
  /\ pc = "submit" /\ idx <= Len(all_export_details)
  /\ request_config' = generate_filtered_config(config, all_export_details[idx])
  /\ config' = BuildObjects(config, all_export_details[idx]).self_config
  /\ post_seen' = << >>
  /\ cooldowns' = 0
  /\ get_attempts' = 0
  /\ pc' = "post"
  /\ UNCHANGED <<error, inputs, all_export_details, features, idx,
                 posted, task_ids, polling, sleeping>>

\* retry_post_request, lines 62-75: one POST on the wire
Post ==
  /\ pc = "post"
  /\ \E r \in PostResponses(Len(task_ids)) :
       LET o == PostOutcome(Len(post_seen), r) IN
       /\ o = "RetryError" => cooldowns < MaxCooldowns
       /\ post_seen' = Append(post_seen, r)
       /\ posted' = TRUE
       /\ CASE o = "retry" -> UNCHANGED <<pc, error, idx, task_ids>>
            [] o = "RetryError" ->
                 /\ pc' = "cooldown"
                 /\ UNCHANGED <<error, idx, task_ids>>
            [] o = "return" ->
                 /\ task_ids' = CollectTaskId(task_ids, r.json.task_id)
                 /\ idx' = idx + 1
                 /\ pc' = "submit"
                 /\ UNCHANGED error
            [] OTHER -> Raise(o) /\ UNCHANGED <<idx, task_ids>>
       /\ sleeping' = IF o = "RetryError" THEN RateLimitSleep ELSE 0
  /\ UNCHANGED <<inputs, config, discovery, request_config, cooldowns, polling>>

\* lines 75-77 and handle_rate_limit: the cooldown ends and
\* retry_post_request calls itself with the same request body
HandleRateLimit ==
  /\ pc = "cooldown"
  /\ cooldowns' = cooldowns + 1
  /\ sleeping' = 0
  /\ post_seen' = << >>
  /\ pc' = "post"
  /\ UNCHANGED <<error, inputs, config, discovery, idx, request_config, posted,
                 task_ids, polling>>

\* a caller that polls whatever the flag says
AfterInitCall_AlwaysTrack(e, t) == "track"

\* what the entry point does with the task identifiers: main polls them
\* when --track is set (lines 219-220), lambda_handler ends (line 180)
AfterInitCall(e, t) == IF e = "main" /\ t THEN "track" ELSE "done"

\* init_call returns (line 165) and its locals go out of scope; main
\* continues at line 219
InitCallReturn ==
  /\ pc = "submit" /\ idx > Len(all_export_details)
  /\ request_config' = << >>
  /\ post_seen' = << >>
  /\ cooldowns' = 0
  /\ get_attempts' = 0
  /\ pc' = AfterInitCall(entry, track)
  /\ UNCHANGED <<error, inputs, config, all_export_details, features, idx,
                 posted, task_ids, polling, sleeping>>

\* track_tasks_status, lines 95-101 and 118-119: first query of the next task
StatusFirst ==
  /\ pc = "track" /\ tidx < Len(task_ids)
  /\ \E o \in StatusOutcomes :
       LET task_id == CurrentTask(task_ids, tidx)
           response == retry_get_request(o) IN
       /\ queried' = task_id
       /\ seen' = <<response>>
       /\ calls' = 1
       /\ sleeps' = 0
       /\ IF response.status = "SUCCESS"
          THEN /\ results' = DictPut(results, task_id, response.result)
               /\ tidx' = tidx + 1
               /\ UNCHANGED pc
          ELSE IF response.status \in NonTerminal
          THEN /\ pc' = "poll_loop"
               /\ UNCHANGED <<results, tidx>>
          ELSE /\ results' = DictPut(results, task_id, "FAILURE")
               /\ tidx' = tidx + 1
               /\ UNCHANGED pc
  /\ UNCHANGED <<error, inputs, config, discovery, submission, result_json, sleeping>>

\* lines 102-116: one re-query inside the while loop
StatusLoop ==
  /\ pc = "poll_loop" /\ calls < MaxPolls
  /\ \E o \in StatusOutcomes :
       LET task_id == CurrentTask(task_ids, tidx)
           response == retry_get_request(o) IN
       /\ queried' = task_id
       /\ seen' = Append(seen, response)
       /\ calls' = calls + 1
       /\ IF response.status \in LoopTerminal
          THEN IF "result" \in DOMAIN response
               THEN /\ results' = DictPut(results, task_id, response.result)
                    /\ tidx' = tidx + 1
                    /\ pc' = "track"
                    /\ UNCHANGED error
               ELSE /\ Raise("KeyError:result")
                    /\ UNCHANGED <<results, tidx>>
          ELSE /\ pc' = "sleep"
               /\ UNCHANGED <<error, results, tidx>>
       /\ sleeping' = IF response.status \in LoopTerminal THEN 0 ELSE PollSleep
  /\ UNCHANGED <<inputs, config, discovery, submission, sleeps, result_json>>

\* line 117: the 30-second sleep ends
Sleep ==
  /\ pc = "sleep"
  /\ sleeps' = sleeps + 1
  /\ sleeping' = 0
  /\ pc' = "poll_loop"
  /\ UNCHANGED <<error, inputs, config, discovery, submission, tidx, queried,
                 seen, calls, results, result_json>>

\* a dump placed inside the for loop: written after every finished task
Persist_InsideLoop ==
  /\ pc = "track" /\ 0 < tidx /\ Len(result_json) < tidx
  /\ result_json' = Append(result_json, results)
  /\ pc' = IF tidx = Len(task_ids) THEN "done" ELSE "track"
  /\ UNCHANGED <<error, inputs, config, discovery, submission, tidx, queried,
                 seen, calls, sleeps, results, sleeping>>

\* lines 120-123: dump the Result Set to result.json; result_json holds
\* the documents written, in order
Persist ==
  /\ pc = "track" /\ tidx = Len(task_ids)
  /\ result_json' = Append(result_json, results)
  /\ pc' = "done"
  /\ UNCHANGED <<error, inputs, config, discovery, submission, tidx, queried,
                 seen, calls, sleeps, results, sleeping>>

Next ==
  \/ Main
  \/ LambdaHandler
  \/ InitCall
  \/ GetScheduledExports
  \/ ProcessExport
  \/ Post
  \/ HandleRateLimit
  \/ InitCallReturn
  \/ StatusFirst
  \/ StatusLoop
  \/ Sleep
  \/ Persist

Spec == Init /\ [][Next]_vars

\* ---------------------------------------------------------------- claims
Last(q) == q[Len(q)]

\* the task whose status queries `seen` holds has its entry recorded
Recorded == pc \in {"track", "done"} /\ tidx >= 1 /\ seen # << >>
LastTask == task_ids[tidx]

\* C1: polling never fails: no error of a status query propagates out of
\* track_tasks_status, and when polling has finished every task identifier
\* has an entry in the Result Set.
C1_PollingNeverFails ==
  /\ calls > 0 => pc # "failed"
  /\ result_json # << >> =>
       \A i \in DOMAIN task_ids : task_ids[i] \in DOMAIN results

\* C2: every value of the Result Set is the "result" payload of a SUCCESS
\* response or the literal "FAILURE"; a task whose terminal response is not
\* SUCCESS is recorded as "FAILURE".
C2_ResultIsPayloadOrFailure ==
  /\ \A t \in DOMAIN results : results[t] \in {"r1", "r2", "FAILURE"}
  /\ Recorded =>
       results[LastTask] = IF Last(seen).status = "SUCCESS"
                           THEN Last(seen).result
                           ELSE "FAILURE"

\* n >= 0 PENDING/STARTED responses followed by one SUCCESS response
PendingThenSuccess(q) ==
  /\ q # << >>
  /\ Last(q).status = "SUCCESS"
  /\ \A i \in 1..(Len(q) - 1) : q[i].status \in {"PENDING", "STARTED"}

\* C3: after n >= 0 PENDING/STARTED responses and then a SUCCESS response
\* carrying r, the task is finished with exactly n+1 status calls and r is
\* its value in the Result Set.
C3_SuccessAfterNonTerminal ==
  PendingThenSuccess(seen) =>
    /\ Recorded
    /\ calls = Len(seen)
    /\ results[LastTask] = Last(seen).result

C3_Witness ==
  /\ Recorded
  /\ Len(seen) = 3
  /\ seen[1].status = "PENDING" /\ seen[2].status = "PENDING"
  /\ seen[3] = [status |-> "SUCCESS", result |-> "r2"]
  /\ calls = 3
  /\ results[LastTask] = "r2"

\* C4: a first status response that is neither SUCCESS nor PENDING nor
\* STARTED ends the task after exactly one status call, with the literal
\* "FAILURE" recorded.
C4_OtherFirstStatusIsFailure ==
  (seen # << >> /\ seen[1].status \notin {"SUCCESS", "PENDING", "STARTED"}) =>
    /\ Recorded
    /\ Len(seen) = 1 /\ calls = 1
    /\ results[LastTask] = "FAILURE"

C4_Witness ==
  /\ Recorded
  /\ seen = <<[status |-> "REVOKED", result |-> None]>>
  /\ calls = 1
  /\ results[LastTask] = "FAILURE"

\* the POST responses of the current attempt that were followed by a retry
Retried(q) == {q[i].status_code : i \in 1..(Len(q) - 1)}

HasTaskId(r) ==
  /\ r.status_code = 200
  /\ "task_id" \in DOMAIN r.json
  /\ r.json.task_id # None

\* C5: one submission attempt issues at most 3 POSTs, a POST is repeated
\* only after a 429 or 502 response, and a success response inside that
\* budget makes the submission return its task_id without any cooldown.
C5_RetryWithinBudget ==
  /\ Len(post_seen) <= 3
  /\ Retried(post_seen) \subseteq {429, 502}
  /\ (post_seen # << >> /\ HasTaskId(Last(post_seen))) =>
       /\ pc = "submit"
       /\ sleeping = 0
       /\ task_ids # << >>
       /\ Last(task_ids) = Last(post_seen).json.task_id

C5_Witness ==
  /\ pc = "submit"
  /\ Len(post_seen) = 3
  /\ post_seen[1].status_code = 502 /\ post_seen[2].status_code = 502
  /\ HasTaskId(post_seen[3])
  /\ cooldowns = 0
  /\ Last(task_ids) = post_seen[3].json.task_id

\* three 429/502 responses in one attempt: the transport budget is spent
BudgetExhausted ==
  /\ Len(post_seen) = 3
  /\ \A i \in 1..3 : post_seen[i].status_code \in {429, 502}

\* C6: an attempt that spends its retry budget on 429/502 does not fail:
\* it enters the 61-second cooldown, the cooldown is counted exactly once,
\* and the same request body is then submitted again with a fresh budget,
\* whatever the number of earlier rounds.
C6_CooldownAndRestart ==
  /\ [](BudgetExhausted =>
          pc = "cooldown" /\ sleeping = 61 /\ error = "none")
  /\ [][pc = "cooldown" =>
          /\ pc' = "post"
          /\ cooldowns' = cooldowns + 1
          /\ post_seen' = << >>
          /\ request_config' = request_config
          /\ idx' = idx
          /\ task_ids' = task_ids
          /\ error' = "none"]_vars
  /\ [][cooldowns' > cooldowns => pc = "cooldown"]_vars

C6_Witness ==
  /\ pc = "post"
  /\ cooldowns = MaxCooldowns
  /\ post_seen = << >>
  /\ request_config = generate_filtered_config(config, all_export_details[idx])

\* the last POST response is an error status outside 429/502, or a success
\* response without a task_id field
HardFailureResponse ==
  /\ post_seen # << >>
  /\ \/ Last(post_seen).status_code \notin {200, 429, 502}
     \/ /\ Last(post_seen).status_code = 200
        /\ "task_id" \notin DOMAIN Last(post_seen).json

\* C7: such a response fails the run at once: no cooldown, no further POST
\* for this or any later descriptor, no status query, nothing persisted.
C7_HardFailureAborts ==
  /\ [](HardFailureResponse =>
          /\ pc = "failed"
          /\ error \in {"HTTPError", "KeyError:task_id"}
          /\ sleeping = 0
          /\ calls = 0
          /\ result_json = << >>)
  /\ [][(error \in {"HTTPError", "KeyError:task_id"}) => (vars' = vars)]_vars

C7_Witness ==
  /\ pc = "failed"
  /\ error = "HTTPError"
  /\ Last(post_seen).status_code = 500
  /\ idx < Len(all_export_details)
  /\ track
  /\ calls = 0 /\ result_json = << >>

\* C8: scheduled discovery makes at most 3 GET attempts, goes on after a
\* failed attempt while fewer than 3 were made, ends with the features of
\* the first successful attempt, and after 3 failures aborts the run before
\* any submission POST.
C8_DiscoveryRetriesThenAborts ==
  /\ [](/\ get_attempts <= 3
        /\ pc = "get_scheduled" => get_attempts < 3 /\ ~posted
        /\ error = "Exception" =>
             /\ pc = "failed"
             /\ get_attempts = 3
             /\ ~posted /\ post_seen = << >> /\ task_ids = << >>)
  /\ [][pc = "get_scheduled" =>
          /\ get_attempts' = get_attempts + 1
          /\ \/ pc' = "get_scheduled" /\ features' = features
             \/ pc' = "failed" /\ error' = "Exception"
             \/ /\ pc' = "submit"
                /\ all_export_details' = all_export_details \o features']_vars
  /\ [][error = "Exception" => (vars' = vars)]_vars

C8_Witness ==
  /\ pc = "failed"
  /\ error = "Exception"
  /\ get_attempts = 3
  /\ countries # << >>
  /\ ~posted

\* discovery is over and its descriptor list is the one being submitted
DiscoveryDone ==
  \/ pc \in {"submit", "post", "cooldown", "track", "poll_loop", "sleep", "done"}
  \/ pc = "failed" /\ error \notin {"ValueError", "Exception"}

C10_SingleOverride ==
  pc \in {"post", "cooldown"} =>
    LET properties == all_export_details[idx].properties
        request == Loads(request_config) IN
    /\ Len(properties) = 1 =>
         /\ DictKeys(request) = DictKeys(config) \cup {"key"}
         /\ DictGet(request, "key") = properties[1][2]
         /\ \A f \in DictKeys(config) \ {"key"} :
              DictGet(request, f) = DictGet(config, f)
    /\ Len(properties) = 0 => request = config

C10_Witness ==
  /\ pc = "post"
  /\ all_export_details[idx].properties = << <<"iso3", "UGA">> >>
  /\ "key" \in DictKeys(config)
  /\ DictGet(config, "key") # "UGA"
  /\ DictGet(Loads(request_config), "key") = "UGA"
  /\ DictGet(Loads(request_config), "geometry") = "g0"

\* C11: once the processor is constructed its template stays the value
\* loaded at construction, whatever was built and submitted since, and a
\* request built later carries nothing of an earlier request's override.
C11_TemplateNeverMutated ==
  /\ (pc # "start" /\ error # "ValueError") => config = file_content
  /\ (pc \in {"post", "cooldown"}
        /\ all_export_details[idx].properties = << >>) =>
       Loads(request_config) = file_content

C11_Witness ==
  /\ pc = "post"
  /\ idx = 2
  /\ all_export_details[1].properties = << <<"iso3", "KEN">> >>
  /\ all_export_details[2].properties = << >>
  /\ posted
  /\ config = file_content
  /\ "key" \notin DictKeys(config)
  /\ Loads(request_config) = file_content

\* the run's configuration is unusable: no template file, a template that
\* does not parse, CONFIG_JSON unset under lambda_handler, or no token
ConfigurationError ==
  \/ config_file # "valid"
  \/ ~token
  \/ entry = "lambda" /\ config_json = None

\* C12: with such a configuration the run fails with a ValueError before
\* any HTTP request: no scheduled-discovery GET, no POST, no status GET.
C12_ConfigErrorsBeforeNetwork ==
  ConfigurationError =>
    /\ pc \in {"start", "failed"}
    /\ pc = "failed" => error = "ValueError"
    /\ get_attempts = 0 /\ features = << >>
    /\ ~posted /\ post_seen = << >>
    /\ calls = 0 /\ seen = << >>
    /\ result_json = << >>

C12_Witness ==
  /\ pc = "failed"
  /\ error = "ValueError"
  /\ token
  /\ config_file = "invalid"
  /\ fetch_scheduled_exports = "daily"
  /\ countries # << >>
  /\ get_attempts = 0 /\ ~posted /\ calls = 0

\* C13: a task's polling ends, with its entry recorded, as soon as a
\* response is SUCCESS, FAILURE or ERROR, and goes on only while the last
\* response is PENDING or STARTED; so polling cannot end otherwise than by
\* finishing every task and persisting the Result Set.
C13_EndsOnTerminalOnly ==
  /\ (seen # << >> /\ Last(seen).status \in {"SUCCESS", "FAILURE", "ERROR"})
       => Recorded
  /\ pc \in {"poll_loop", "sleep"} =>
       Last(seen).status \in {"PENDING", "STARTED"}
  /\ calls > 0 => pc # "failed"

\* C14: after a PENDING or STARTED response, a response whose status is
\* none of the recognized ones (REVOKED) ends the task at once with the
\* literal "FAILURE" recorded; the task is not polled again.
C14_UnrecognizedLaterStatusIsTerminal ==
  (Len(seen) >= 2 /\ Last(seen).status = "REVOKED") =>
    /\ Recorded
    /\ calls = Len(seen)
    /\ results[LastTask] = "FAILURE"

\* the position of a task identifier in the list handed to polling
Position(t) == CHOOSE k \in DOMAIN task_ids : task_ids[k] = t

\* a step that issues a status query
StatusQueryStep == pc = "poll_loop" \/ (pc = "track" /\ pc' # "done")

\* C15: a status query goes to a task of the list that has no entry yet
\* while every task before it in the list has one; the entries are those
\* of a prefix of the list, so no task is queried out of order or again
\* after its entry was recorded.
C15_SequentialPolling ==
  /\ [](/\ tidx <= Len(task_ids)
        /\ DOMAIN results = {task_ids[i] : i \in 1..tidx}
        /\ pc \in {"poll_loop", "sleep"} =>
             /\ queried = task_ids[tidx + 1]
             /\ queried \notin DOMAIN results)
  /\ [][StatusQueryStep =>
          /\ \E k \in DOMAIN task_ids : task_ids[k] = queried'
          /\ queried' \notin DOMAIN results
          /\ \A i \in 1..(Position(queried') - 1) :
               task_ids[i] \in DOMAIN results]_vars

C15_Witness ==
  /\ pc = "poll_loop"
  /\ task_ids = <<"t1", "t2">>
  /\ queried = "t2"
  /\ calls = 2
  /\ DOMAIN results = {"t1"}

\* C16: result.json is written at most once, only when polling has
\* finished every task, and the document's keys are the task identifiers
\* handed to polling; while polling is under way, blocked or failed,
\* nothing has been written.
C16_PersistedOnceAndWhole ==
  /\ Len(result_json) <= 1
  /\ result_json # << >> =>
       /\ pc = "done"
       /\ tidx = Len(task_ids)
       /\ DOMAIN result_json[1] = {task_ids[i] : i \in DOMAIN task_ids}
       /\ result_json[1] = results
  /\ pc # "done" => result_json = << >>

C16_Witness ==
  /\ pc = "done"
  /\ task_ids = <<"t1", "t2">>
  /\ Len(result_json) = 1
  /\ DOMAIN result_json[1] = {"t1", "t2"}
  /\ result_json[1]["t1"] = "FAILURE"
  /\ result_json[1]["t2"] = "r1"

\* C17: the run goes discovery, submission loop, polling, persistence: no
\* POST while discovery is under way, the descriptors are taken one by one
\* in list order, no status GET and no write before the last submission
\* has returned, and without the tracking flag no status GET and no write
\* at all.
C17_LinearRun ==
  /\ [](/\ pc \in {"start", "init_call", "get_scheduled"} =>
             ~posted /\ calls = 0 /\ result_json = << >>
        /\ pc \in {"submit", "post", "cooldown"} =>
             calls = 0 /\ result_json = << >>
        /\ pc \in {"post", "cooldown"} => idx \in DOMAIN all_export_details
        /\ (calls > 0 \/ result_json # << >>) =>
             idx = Len(all_export_details) + 1
        /\ ~track => calls = 0 /\ result_json = << >>)
  /\ [][(pc \in {"submit", "post", "cooldown"}) =>
          /\ idx' \in {idx, idx + 1}
          /\ all_export_details' = all_export_details
          /\ posted' # posted => pc = "post"]_vars

C17_Witness ==
  /\ pc = "done"
  /\ entry = "main"
  /\ ~track
  /\ Len(all_export_details) = 2
  /\ task_ids = <<"t1", "t2">>
  /\ calls = 0
  /\ result_json = << >>

\* C18: any two consecutive status queries of a task are separated by one
\* 30-second sleep, the first and the second included: a task about to be
\* queried again has slept once per query made, and a finished task once
\* less than it was queried.
C18_SleepBetweenQueries ==
  /\ pc = "poll_loop" => sleeps = calls
  /\ pc = "sleep" => sleeps = calls - 1 /\ sleeping = 30
  /\ Recorded => sleeps = calls - 1

\* a step in which a submission returns to the loop of init_call
SubmissionReturns == pc = "post" /\ pc' = "submit"

\* C19: the task identifier list grows only when a submission returns, by
\* the non-null task_id of the response that ended it and at its end, so
\* it holds the identifiers the endpoint returned, in descriptor order, at
\* most one per descriptor submitted, and never the null value.
C19_CollectedTaskIds ==
  /\ [](/\ Len(task_ids) <= Len(all_export_details)
        /\ pc \in {"submit", "post", "cooldown"} => Len(task_ids) <= idx - 1
        /\ \A i \in DOMAIN task_ids : task_ids[i] # "None")
  /\ [][IF SubmissionReturns
        THEN /\ idx' = idx + 1
             /\ Last(post_seen').status_code = 200
             /\ task_ids' = IF Last(post_seen').json.task_id # "None"
                            THEN task_ids \o <<Last(post_seen').json.task_id>>
                            ELSE task_ids
        ELSE task_ids' = task_ids]_vars

C19_Witness ==
  /\ pc = "done"
  /\ Len(all_export_details) = 3
  /\ idx = 4
  /\ task_ids = <<"t1", "t2">>

DictValues(d) == {d[i][2] : i \in DOMAIN d}

\* C20: for a descriptor whose property mapping has several keys, the
\* request submitted has the template's fields plus the one field "key",
\* "key" holds the value of the last key iterated, every other field is as
\* in the template, and the value of an earlier key, where it differs from
\* the last value and from the template's values, is nowhere in the request.
C20_LastKeyWins ==
  pc \in {"post", "cooldown"} =>
    LET properties == all_export_details[idx].properties
        request == Loads(request_config)
        n == Len(properties) IN
    n >= 2 =>
      /\ DictKeys(request) = DictKeys(file_content) \cup {"key"}
      /\ Cardinality(DOMAIN request) = Cardinality(DictKeys(request))
      /\ DictGet(request, "key") = properties[n][2]
      /\ \A f \in DictKeys(file_content) \ {"key"} :
           DictGet(request, f) = DictGet(file_content, f)
      /\ \A i \in 1..(n - 1) :
           properties[i][2] \notin DictValues(file_content) \cup {properties[n][2]}
             => properties[i][2] \notin DictValues(request)

C20_Witness ==
  /\ pc = "post"
  /\ all_export_details[idx].properties
       = << <<"iso3", "NPL">>, <<"dataset", "roads">> >>
  /\ DictGet(Loads(request_config), "key") = "roads"
  /\ "NPL" \notin DictValues(Loads(request_config))
  /\ DictGet(Loads(request_config), "dataset") = "d0"

====
